---- MODULE Spec2Model ----
(***************************************************************************)
(* Report assembly of deep_researcher/agents/long_writer_agent.py:         *)
(* reference consolidation (reformat_references), heading normalization    *)
(* (reformat_section_headings) and the section loop (write_report).        *)
(*                                                                         *)
(* A Python str is a sequence of one-character strings; a Python list is   *)
(* a sequence; a dict is a sequence of <<key, value>> pairs in insertion   *)
(* order with unique keys.                                                 *)
(***************************************************************************)
EXTENDS Integers, Sequences, FiniteSets, TLC

VARIABLES
    pc,                 \* position of the operation under check
    section_markdown,   \* the section body handed to the operation
    section_references, \* the section's reference strings
    all_references,     \* the running global reference list (mutated in place)
    out,                \* what the last call returned (or that it raised)
    prev,               \* what the call before the last returned
    ncalls,             \* consolidation calls made so far
    resolved,           \* <<call, locator, local number, number>> of every rewritten marker
    declared,           \* <<call, locator>> of every well-formed declaration
    \* write_report, one coroutine per assembly
    report_draft,       \* the planned sections of each assembly
    apc,                \* where each write_report stands
    final_draft,        \* the document each assembly has built so far
    all_references_of,  \* each assembly's own all_references
    section_index,      \* sections each assembly has appended
    requests,           \* the calls of write_next_section each assembly made
    drafts,             \* the drafts write_next_section returned to each assembly
    rendered,           \* the section bodies each assembly appended
    outstanding,        \* draft requests each assembly is waiting for
    result,             \* what each write_report returned or raised
    \* the gap loop controller
    gstate,             \* PLANNING, ITERATING or DONE
    gpc,                \* the step of ITERATING the controller is at
    max_iterations,     \* the configured maximum of iteration_count
    history,            \* ResearchState.history
    iteration_count,    \* ResearchState.iteration_count
    completion_flag,    \* ResearchState.completion_flag
    judgment,           \* the last completeness judgment received
    dispatched,         \* the last task plan: its length and the tasks dispatched
    iterations          \* of every entry into ITERATING, what was requested and dispatched

refVars == <<pc, section_markdown, section_references, all_references, out, prev,
             ncalls, resolved, declared>>

asmVars == <<report_draft, apc, final_draft, all_references_of, section_index,
             requests, drafts, rendered, outstanding, result>>

gapVars == <<gstate, gpc, max_iterations, history, iteration_count, completion_flag,
             judgment, dispatched, iterations>>

vars == <<refVars, asmVars, gapVars>>

(***************************************************************************)
(* Bounds of the model.                                                    *)
(***************************************************************************)
MaxRefs == 2          \* entries in one section's reference list
MaxBodyTokens == 2    \* tokens in one section body (reference claims)
MaxCalls == 3         \* consolidation calls in one sequence

(***************************************************************************)
(* Characters and str helpers.                                             *)
(***************************************************************************)
NoResult == [kind |-> "none"]

Digits == <<"0", "1", "2", "3", "4", "5", "6", "7", "8", "9">>

IsDigit(c) == \E d \in 1..10 : Digits[d] = c

DigitVal(c) == (CHOOSE d \in 1..10 : Digits[d] = c) - 1

\* str.isspace for the characters of the model
IsSpace(c) == c \in {" ", "\t", "\n"}

\* s[i:] of Python, 1-based: the characters from position i on
Tail_(s, i) == SubSeq(s, i, Len(s))

\* position of the first c in s, 0 when there is none
IndexOf(s, c) ==
    IF \E i \in 1..Len(s) : s[i] = c
    THEN CHOOSE i \in 1..Len(s) : s[i] = c /\ \A j \in 1..(i - 1) : s[j] # c
    ELSE 0

\* s.strip(c): every leading and trailing c removed
RECURSIVE lstrip_char(_, _)
lstrip_char(s, c) ==
    IF s # <<>> /\ Head(s) = c THEN lstrip_char(Tail(s), c) ELSE s

RECURSIVE rstrip_char(_, _)
rstrip_char(s, c) ==
    IF s # <<>> /\ s[Len(s)] = c THEN rstrip_char(SubSeq(s, 1, Len(s) - 1), c) ELSE s

strip_char(s, c) == rstrip_char(lstrip_char(s, c), c)

\* s.strip(): leading and trailing whitespace removed
RECURSIVE lstrip(_)
lstrip(s) == IF s # <<>> /\ IsSpace(Head(s)) THEN lstrip(Tail(s)) ELSE s

RECURSIVE rstrip(_)
rstrip(s) ==
    IF s # <<>> /\ IsSpace(s[Len(s)]) THEN rstrip(SubSeq(s, 1, Len(s) - 1)) ELSE s

strip(s) == rstrip(lstrip(s))

\* int(s) succeeds: optional surrounding whitespace around one or more digits
int_ok(s) ==
    LET t == strip(s) IN t # <<>> /\ \A i \in 1..Len(t) : IsDigit(t[i])

RECURSIVE digits_value(_)
digits_value(t) ==
    IF t = <<>> THEN 0
    ELSE 10 * digits_value(SubSeq(t, 1, Len(t) - 1)) + DigitVal(t[Len(t)])

\* int(s), where int_ok(s)
int(s) == digits_value(strip(s))

\* str(n) for n >= 0
RECURSIVE str(_)
str(n) == IF n < 10 THEN <<Digits[n + 1]>> ELSE str(n \div 10) \o <<Digits[(n % 10) + 1]>>

\* f"[{n}]"
marker_text(n) == <<"[">> \o str(n) \o <<"]">>

\* f"[{ref_count}] {url}"
format_reference(ref_count, url) == marker_text(ref_count) \o <<" ">> \o url

(***************************************************************************)
(* convert_ref_list_to_map.                                                *)
(***************************************************************************)
\* ref.split(']')[0]: the text before the first ']', the whole text without one
split_head(ref) ==
    IF IndexOf(ref, "]") = 0 THEN ref ELSE SubSeq(ref, 1, IndexOf(ref, "]") - 1)

\* One pass of the try block on one entry: int() raises ValueError (caught),
\* split(']', 1)[1] raises IndexError without a ']' (not caught).
parse_ref(ref) ==
    LET numtxt == strip_char(split_head(ref), "[") IN
    IF ~int_ok(numtxt) THEN [kind |-> "ValueError"]
    ELSE IF IndexOf(ref, "]") = 0 THEN [kind |-> "IndexError"]
    ELSE [kind |-> "ok", ref_num |-> int(numtxt),
          url |-> strip(Tail_(ref, IndexOf(ref, "]") + 1))]

\* ref_map[url] = ref_num on a dict kept as a sequence of <<url, ref_num>>
dict_set(d, k, v) ==
    IF \E i \in 1..Len(d) : d[i][1] = k
    THEN [i \in 1..Len(d) |-> IF d[i][1] = k THEN <<k, v>> ELSE d[i]]
    ELSE Append(d, <<k, v>>)

dict_has(d, k) == \E i \in 1..Len(d) : d[i][1] = k

dict_get(d, k) == d[CHOOSE i \in 1..Len(d) : d[i][1] = k][2]

RECURSIVE convert_loop(_, _)
convert_loop(ref_list, ref_map) ==
    IF ref_list = <<>> THEN [raised |-> "none", ref_map |-> ref_map]
    ELSE LET p == parse_ref(Head(ref_list)) IN
         CASE p.kind = "ValueError" -> convert_loop(Tail(ref_list), ref_map)
           [] p.kind = "IndexError" -> [raised |-> "IndexError", ref_map |-> ref_map]
           [] OTHER -> convert_loop(Tail(ref_list), dict_set(ref_map, p.url, p.ref_num))

convert_ref_list_to_map(ref_list) == convert_loop(ref_list, <<>>)

(***************************************************************************)
(* reformat_references.                                                    *)
(***************************************************************************)
\* max(report_ref_map.values() or [0])
max_value(d) ==
    IF d = <<>> THEN 0
    ELSE d[CHOOSE i \in 1..Len(d) : \A j \in 1..Len(d) : d[j][2] <= d[i][2]][2]

\* a numbering that starts over with every section
initial_ref_count_restart(report_ref_map) == 0

\* ref_count before the loop
initial_ref_count(report_ref_map) == max_value(report_ref_map)

\* a merge that takes every locator of the section for a new one
in_report_never(report_ref_map, url) == FALSE

\* url in report_urls
in_report(report_ref_map, url) == dict_has(report_ref_map, url)

\* the number a locator that is not in the report yet is given
next_ref_count(ref_count) == ref_count + 1

\* the number recorded for a locator that is already in the report
existing_ref_num(report_ref_map, url) == dict_get(report_ref_map, url)

\* a new reference put in front of the list
append_reference_in_front(all_refs, ref) == <<ref>> \o all_refs

\* all_references.append(...)
append_reference(all_refs, ref) == Append(all_refs, ref)

\* for url, section_ref_num in section_ref_map.items(): ...
\* acc = [ref_count, section_to_report_ref_map, all_references]
RECURSIVE merge_loop(_, _, _)
merge_loop(items, report_ref_map, acc) ==
    IF items = <<>> THEN acc
    ELSE LET url == Head(items)[1]
             section_ref_num == Head(items)[2]
         IN  IF in_report(report_ref_map, url)
             THEN merge_loop(Tail(items), report_ref_map,
                     [acc EXCEPT !.section_to_report_ref_map =
                         dict_set(@, section_ref_num,
                                  existing_ref_num(report_ref_map, url))])
             ELSE merge_loop(Tail(items), report_ref_map,
                     [ref_count |-> next_ref_count(acc.ref_count),
                      section_to_report_ref_map |->
                         dict_set(acc.section_to_report_ref_map, section_ref_num,
                                  next_ref_count(acc.ref_count)),
                      all_references |->
                         append_reference(acc.all_references,
                                format_reference(next_ref_count(acc.ref_count), url))])

\* the length of the run of digits of s that starts at position i
RECURSIVE digit_run(_, _)
digit_run(s, i) ==
    IF i <= Len(s) /\ IsDigit(s[i]) THEN 1 + digit_run(s, i + 1) ELSE 0

\* re.finditer(r'\[(\d+)\]', s) from position i: the non-overlapping matches,
\* leftmost first, each [from, to, group1]
RECURSIVE marker_matches(_, _)
marker_matches(s, i) ==
    IF i > Len(s) THEN <<>>
    ELSE LET d == digit_run(s, i + 1) IN
         IF s[i] = "[" /\ d >= 1 /\ i + d + 1 <= Len(s) /\ s[i + d + 1] = "]"
         THEN <<[from |-> i, to |-> i + d + 1, group1 |-> SubSeq(s, i + 1, i + d)]>>
              \o marker_matches(s, i + d + 2)
         ELSE marker_matches(s, i + 1)

\* replace_reference(match): the replacement text of one marker
replace_reference(group1, section_to_report_ref_map) ==
    LET ref_num == int(group1) IN
    IF dict_has(section_to_report_ref_map, ref_num)
       /\ dict_get(section_to_report_ref_map, ref_num) # 0
    THEN marker_text(dict_get(section_to_report_ref_map, ref_num))
    ELSE <<>>

\* re.sub(r'\[(\d+)\]', replace_reference, s): the text between the matches
\* is copied, each match gives way to its replacement, nothing is rescanned
RECURSIVE sub_from(_, _, _, _)
sub_from(s, i, matches, section_to_report_ref_map) ==
    IF matches = <<>> THEN Tail_(s, i)
    ELSE SubSeq(s, i, Head(matches).from - 1)
         \o replace_reference(Head(matches).group1, section_to_report_ref_map)
         \o sub_from(s, Head(matches).to + 1, Tail(matches), section_to_report_ref_map)

\* a substitution whose result is scanned and rewritten once more
rewrite_markers_rescanned(s, section_to_report_ref_map) ==
    LET once == sub_from(s, 1, marker_matches(s, 1), section_to_report_ref_map)
    IN  sub_from(once, 1, marker_matches(once, 1), section_to_report_ref_map)

rewrite_markers(s, section_to_report_ref_map) ==
    sub_from(s, 1, marker_matches(s, 1), section_to_report_ref_map)

\* the calls of replace_reference that re.sub makes on s, in order: the number
\* of the marker and the text returned for it
replace_calls(s, section_to_report_ref_map) ==
    LET matches == marker_matches(s, 1) IN
    [k \in 1..Len(matches) |->
        [ref_num |-> int(matches[k].group1),
         text |-> replace_reference(matches[k].group1, section_to_report_ref_map)]]

\* reformat_references(section_markdown, section_references, all_references):
\* raised says whether the call ended in an exception; all_references is the
\* caller's list after the call (appended to in place).
reformat_references(markdown, sec_refs, all_refs) ==
    LET section_ref_map == convert_ref_list_to_map(sec_refs)
        report_ref_map == convert_ref_list_to_map(all_refs)
    IN  IF section_ref_map.raised # "none" \/ report_ref_map.raised # "none"
        THEN [kind |-> "raised", raised |-> "IndexError",
              section_markdown |-> markdown, all_references |-> all_refs,
              before |-> all_refs, replaced |-> <<>>]
        ELSE LET acc == merge_loop(section_ref_map.ref_map, report_ref_map.ref_map,
                            [ref_count |-> initial_ref_count(report_ref_map.ref_map),
                             section_to_report_ref_map |-> <<>>,
                             all_references |-> all_refs])
             IN  [kind |-> "returned", raised |-> "none",
                  section_markdown |->
                      rewrite_markers(markdown, acc.section_to_report_ref_map),
                  all_references |-> acc.all_references,
                  before |-> all_refs,
                  replaced |-> replace_calls(markdown, acc.section_to_report_ref_map)]

(***************************************************************************)
(* The section drafts the drafting collaborator may return.  A reference   *)
(* entry is kept with what it was built from: whether it is "[n] locator"  *)
(* (shape "ok") or one of the malformed shapes.  Within one list no number *)
(* stands for two different locators (the data model's invariant).         *)
(***************************************************************************)
Locators == {<<"a">>, <<"b">>}

\* the well-formed entries, as <<number, locator>>
Declarations == {<<1, <<"a">>>>, <<2, <<"a">>>>, <<1, <<"b">>>>}

RefEntries ==
    {[shape |-> "ok", num |-> d[1], loc |-> d[2], text |-> format_reference(d[1], d[2])] :
        d \in Declarations}
    \cup {[shape |-> "no_bracket", num |-> 0, loc |-> <<"a">>, text |-> <<"a">>],
          [shape |-> "non_numeric", num |-> 0, loc |-> <<"a">>,
           text |-> <<"[", "x", "]", " ", "a">>],
          [shape |-> "no_close", num |-> 1, loc |-> <<>>, text |-> <<"1">>],
          [shape |-> "no_locator", num |-> 1, loc |-> <<>>, text |-> <<"[", "1", "]">>]}

EntryOf(text) == CHOOSE e \in RefEntries : e.text = text

\* the entries that carry a bracketed number: "[n] locator" and "[n]"
Numbered(e) == e.shape \in {"ok", "no_locator"}

RECURSIVE SeqsUpTo(_, _)
SeqsUpTo(S, n) ==
    IF n = 0 THEN {<<>>}
    ELSE LET shorter == SeqsUpTo(S, n - 1) IN
         shorter \cup {Append(q, x) : q \in shorter, x \in S}

UniqueNumbers(es) ==
    \A i, j \in 1..Len(es) :
        (Numbered(es[i]) /\ Numbered(es[j]) /\ es[i].num = es[j].num)
            => es[i].loc = es[j].loc

RefLists ==
    {[i \in 1..Len(es) |-> es[i].text] :
        es \in {q \in SeqsUpTo(RefEntries, MaxRefs) : UniqueNumbers(q)}}

BodyTokens == {marker_text(1), marker_text(2), <<"x">>}

RECURSIVE Flatten(_)
Flatten(ss) == IF ss = <<>> THEN <<>> ELSE Head(ss) \o Flatten(Tail(ss))

RefBodies == {Flatten(ts) : ts \in SeqsUpTo(BodyTokens, MaxBodyTokens)}

\* the lists of well-formed entries only
OkLists == {rl \in RefLists : \A i \in 1..Len(rl) : EntryOf(rl[i]).shape = "ok"}

\* the global lists an assembly can have built, from earlier sections with
\* well-formed references, before the call under check
PriorLists ==
    {reformat_references(<<>>, rl, <<>>).all_references : rl \in OkLists}

\* no assembly is running
AsmIdle ==
    /\ report_draft = <<>>
    /\ apc = <<>>
    /\ final_draft = <<>>
    /\ all_references_of = <<>>
    /\ section_index = <<>>
    /\ requests = <<>>
    /\ drafts = <<>>
    /\ rendered = <<>>
    /\ outstanding = <<>>
    /\ result = <<>>

\* no task plan has been received
NoBatch == [planned |-> 0, tasks |-> <<>>]

\* no gap loop is running
GapIdle ==
    /\ gstate = "none"
    /\ gpc = "none"
    /\ max_iterations = 0
    /\ history = <<>>
    /\ iteration_count = 0
    /\ completion_flag = FALSE
    /\ judgment = NoResult
    /\ dispatched = NoBatch
    /\ iterations = <<>>

\* no consolidation or normalization call is under check
RefIdle ==
    /\ pc = "none"
    /\ section_markdown = <<>>
    /\ section_references = <<>>
    /\ all_references = <<>>
    /\ out = NoResult
    /\ prev = NoResult
    /\ ncalls = 0
    /\ resolved = {}
    /\ declared = {}

(***************************************************************************)
(* SpecCall: one (section_markdown, section_references) pair consolidated  *)
(* against a running global list, then consolidated again.                 *)
(***************************************************************************)
MaxRepeat == 3

InitCall ==
    /\ pc = "consolidate"
    /\ section_markdown \in RefBodies
    /\ section_references \in RefLists
    /\ all_references \in PriorLists
    /\ out = NoResult
    /\ prev = NoResult
    /\ ncalls = 0
    /\ resolved = {}
    /\ declared = {}
    /\ AsmIdle
    /\ GapIdle

\* section_markdown, all_references = reformat_references(...), as the caller
\* sees it: the list is the caller's own object, appended to in place
Consolidate ==
    /\ pc = "consolidate"
    /\ ncalls < MaxRepeat
    /\ LET r == reformat_references(section_markdown, section_references, all_references)
       IN  /\ out' = r
           /\ all_references' = r.all_references
    /\ prev' = out
    /\ ncalls' = ncalls + 1
    /\ UNCHANGED <<pc, section_markdown, section_references, resolved, declared>>
    /\ UNCHANGED <<asmVars, gapVars>>

NextCall == Consolidate

SpecCall == InitCall /\ [][NextCall]_vars

(***************************************************************************)
(* SpecSeq: a sequence of consolidation calls on one running global list   *)
(* that starts empty, as the loop of write_report makes them.  The state   *)
(* keeps the list and, of every call, which locator each rewritten marker  *)
(* stood for and the number it was given.                                  *)
(***************************************************************************)
\* bodies that cite every local number, in both orders
SeqBodies ==
    {marker_text(1) \o marker_text(2), marker_text(2) \o <<"x">> \o marker_text(1)}

\* the locators a list declares under local number n
DeclaredUnder(refs, n) ==
    {EntryOf(refs[i]).loc : i \in {j \in 1..Len(refs) :
        EntryOf(refs[j]).shape = "ok" /\ EntryOf(refs[j]).num = n}}

\* the locators a list declares
DeclaredIn(refs) ==
    {EntryOf(refs[i]).loc : i \in {j \in 1..Len(refs) : EntryOf(refs[j]).shape = "ok"}}

\* the number written in a marker text "[g]"
MarkerNumber(text) == int(SubSeq(text, 2, Len(text) - 1))

\* <<call, locator, local number, number>> for every marker of the call that
\* was rewritten (not deleted) and whose local number the section declares
\* for the locator
ResolvedBy(call, refs, r) ==
    UNION {{<<call, l, r.replaced[k].ref_num, MarkerNumber(r.replaced[k].text)>> :
                l \in DeclaredUnder(refs, r.replaced[k].ref_num)} :
           k \in {j \in 1..Len(r.replaced) : r.replaced[j].text # <<>>}}

InitSeq ==
    /\ pc = "sequence"
    /\ section_markdown = <<>>
    /\ section_references = <<>>
    /\ all_references = <<>>
    /\ out = NoResult
    /\ prev = NoResult
    /\ ncalls = 0
    /\ resolved = {}
    /\ declared = {}
    /\ AsmIdle
    /\ GapIdle

\* one pass of the loop body of write_report on the running list; an
\* exception of the call ends the sequence, as it ends write_report
ConsolidateNext ==
    /\ pc = "sequence"
    /\ ncalls < MaxCalls
    /\ \E body \in SeqBodies, refs \in RefLists :
         LET r == reformat_references(body, refs, all_references) IN
           /\ all_references' = r.all_references
           /\ out' = [kind |-> r.kind]
           /\ pc' = IF r.kind = "raised" THEN "raised" ELSE "sequence"
           /\ resolved' = resolved \cup ResolvedBy(ncalls + 1, refs, r)
           /\ declared' = declared \cup {<<ncalls + 1, l>> : l \in DeclaredIn(refs)}
    /\ ncalls' = ncalls + 1
    /\ UNCHANGED <<section_markdown, section_references, prev>>
    /\ UNCHANGED <<asmVars, gapVars>>

NextSeq == ConsolidateNext

SpecSeq == InitSeq /\ [][NextSeq]_vars

(***************************************************************************)
(* reformat_section_headings.                                              *)
(***************************************************************************)
\* the length of the run of '#' of s that starts at position i
RECURSIVE hash_run(_, _)
hash_run(s, i) ==
    IF i <= Len(s) /\ s[i] = "#" THEN 1 + hash_run(s, i + 1) ELSE 0

\* the length of the run of characters other than a newline from position i
RECURSIVE dot_run(_, _)
dot_run(s, i) ==
    IF i <= Len(s) /\ s[i] # "\n" THEN 1 + dot_run(s, i + 1) ELSE 0

\* '^' under re.MULTILINE: the start of the text or just after a newline
line_start(s, i) == i = 1 \/ (i > 1 /\ i <= Len(s) + 1 /\ s[i - 1] = "\n")

\* re.search(r'^(#+)\s', s, re.MULTILINE) from position i: len(group(1)) of
\* the first match, 0 when there is none
RECURSIVE first_heading_match(_, _)
first_heading_match(s, i) ==
    IF i > Len(s) THEN 0
    ELSE LET h == hash_run(s, i) IN
         IF line_start(s, i) /\ h >= 1 /\ i + h <= Len(s) /\ IsSpace(s[i + h])
         THEN h
         ELSE first_heading_match(s, i + 1)

\* re.finditer(r'^(#+)\s(.+)$', s, re.MULTILINE) from position i: the
\* non-overlapping matches, leftmost first.  \s is any whitespace, a newline
\* too; (.+) runs to the end of its line.
RECURSIVE heading_matches(_, _)
heading_matches(s, i) ==
    IF i > Len(s) THEN <<>>
    ELSE LET h == hash_run(s, i)
             c == dot_run(s, i + h + 1)
         IN  IF line_start(s, i) /\ h >= 1 /\ i + h <= Len(s) /\ IsSpace(s[i + h])
                /\ c >= 1
             THEN <<[from |-> i, to |-> i + h + c, hashes |-> h,
                     content |-> SubSeq(s, i + h + 1, i + h + c)]>>
                  \o heading_matches(s, i + h + c + 1)
             ELSE heading_matches(s, i + 1)

max(a, b) == IF a >= b THEN a ELSE b

\* the raw shift, without the floor
new_level_unclamped(hashes, level_adjustment) == hashes + level_adjustment

\* new_level = max(2, len(hashes) + level_adjustment)
new_level(hashes, level_adjustment) == max(2, hashes + level_adjustment)

\* '#' * n
RECURSIVE hashes_text(_)
hashes_text(n) == IF n <= 0 THEN <<>> ELSE <<"#">> \o hashes_text(n - 1)

\* adjust_heading_level(match)
adjust_heading_level(m, level_adjustment) ==
    hashes_text(new_level(m.hashes, level_adjustment)) \o <<" ">> \o m.content

RECURSIVE sub_headings(_, _, _, _)
sub_headings(s, i, matches, level_adjustment) ==
    IF matches = <<>> THEN Tail_(s, i)
    ELSE SubSeq(s, i, Head(matches).from - 1)
         \o adjust_heading_level(Head(matches), level_adjustment)
         \o sub_headings(s, Head(matches).to + 1, Tail(matches), level_adjustment)

\* reformat_section_headings(section_markdown): the text returned, with the
\* first heading level found (0: none, the text is returned as it is) and the
\* calls of adjust_heading_level, in order
reformat_section_headings(markdown) ==
    LET first_heading_level == first_heading_match(markdown, 1)
        level_adjustment == 2 - first_heading_level
        matches == heading_matches(markdown, 1)
    IN  IF strip(markdown) = <<>> \/ first_heading_level = 0
        THEN [kind |-> "returned", input |-> markdown, section_markdown |-> markdown,
              first_heading_level |-> 0, adjusted |-> <<>>]
        ELSE [kind |-> "returned", input |-> markdown,
              section_markdown |-> sub_headings(markdown, 1, matches, level_adjustment),
              first_heading_level |-> first_heading_level,
              adjusted |-> [k \in 1..Len(matches) |->
                  [hashes |-> matches[k].hashes,
                   new_level |-> new_level(matches[k].hashes, level_adjustment)]]]

(***************************************************************************)
(* The section bodies of the heading claims: up to MaxLines lines, each a  *)
(* heading of level 1..MaxLevel, plain text, an empty line, or a line of   *)
(* heading markers without text.                                           *)
(***************************************************************************)
MaxLines == 3
MaxLevel == 4
MaxNormalize == 2

LineKinds ==
    {hashes_text(l) \o <<" ", "a">> : l \in 1..MaxLevel}
    \cup {<<>>, <<"a">>, <<"#">>, <<"#", " ">>, <<"#", "a">>}

RECURSIVE Join(_)
Join(ls) ==
    IF ls = <<>> THEN <<>>
    ELSE IF Len(ls) = 1 THEN ls[1]
    ELSE ls[1] \o <<"\n">> \o Join(Tail(ls))

HeadBodies == {Join(ls) : ls \in SeqsUpTo(LineKinds, MaxLines)}

\* text.split("\n")
RECURSIVE Lines(_)
Lines(s) ==
    IF IndexOf(s, "\n") = 0 THEN <<s>>
    ELSE <<SubSeq(s, 1, IndexOf(s, "\n") - 1)>> \o Lines(Tail_(s, IndexOf(s, "\n") + 1))

\* a heading line: a run of heading markers, a blank, then text on the line
IsHeadingLine(l) ==
    LET h == hash_run(l, 1) IN
    h >= 1 /\ h + 2 <= Len(l) /\ l[h + 1] \in {" ", "\t"}

HeadingLevel(l) == hash_run(l, 1)

(***************************************************************************)
(* SpecHead: a section body is normalized, and the result normalized       *)
(* again, as section_markdown = reformat_section_headings(section_markdown)*)
(***************************************************************************)
InitHead ==
    /\ pc = "normalize"
    /\ section_markdown \in HeadBodies
    /\ section_references = <<>>
    /\ all_references = <<>>
    /\ out = NoResult
    /\ prev = NoResult
    /\ ncalls = 0
    /\ resolved = {}
    /\ declared = {}
    /\ AsmIdle
    /\ GapIdle

Normalize ==
    /\ pc = "normalize"
    /\ ncalls < MaxNormalize
    /\ LET r == reformat_section_headings(section_markdown) IN
         /\ out' = r
         /\ section_markdown' = r.section_markdown
    /\ prev' = out
    /\ ncalls' = ncalls + 1
    /\ UNCHANGED <<pc, section_references, all_references, resolved, declared>>
    /\ UNCHANGED <<asmVars, gapVars>>

NextHead == Normalize

SpecHead == InitHead /\ [][NextHead]_vars

(***************************************************************************)
(* write_report and write_next_section.                                    *)
(***************************************************************************)
MaxSections == 2

Assemblies == {"A1", "A2"}

report_title == <<"T">>

\* the planned sections: ReportDraft.sections, n of them
planned_sections(n) ==
    [k \in 1..n |-> [section_title |-> <<"S">> \o str(k), section_content |-> <<"c">>]]

\* sep.join(parts)
RECURSIVE join(_, _)
join(sep, parts) ==
    IF parts = <<>> THEN <<>>
    ELSE IF Len(parts) = 1 THEN parts[1]
    ELSE parts[1] \o sep \o join(sep, Tail(parts))

\* f"# {report_title}\n\n" + "## Table of Contents\n\n"
\*   + "\n".join(f"{i+1}. {section.section_title}" ...) + "\n\n"
initial_draft(title, sections) ==
    <<"#", " ">> \o title \o <<"\n", "\n">>
    \o <<"#", "#", " ", "T", "a", "b", "l", "e", " ", "o", "f", " ", "C", "o", "n", "t", "e", "n", "t", "s", "\n", "\n">>
    \o join(<<"\n">>, [k \in 1..Len(sections) |->
                         str(k) \o <<".", " ">> \o sections[k].section_title])
    \o <<"\n", "\n">>

\* a draft that forgets the section
append_section_dropped(draft, markdown) == draft

\* final_draft += section_markdown + '\n\n'
append_section(draft, markdown) == draft \o markdown \o <<"\n", "\n">>

\* the references block left out when there is nothing to list
append_references_unless_empty(draft, all_refs) ==
    IF all_refs = <<>> THEN draft
    ELSE draft \o <<"#", "#", " ", "R", "e", "f", "e", "r", "e", "n", "c", "e", "s", ":", "\n", "\n">> \o join(<<" ", " ", "\n">>, all_refs)

\* final_draft += '## References:\n\n' + '  \n'.join(all_references)
append_references(draft, all_refs) ==
    draft \o <<"#", "#", " ", "R", "e", "f", "e", "r", "e", "n", "c", "e", "s", ":", "\n", "\n">> \o join(<<" ", " ", "\n">>, all_refs)

\* {report_draft or "No draft yet"} of the message write_next_section sends
draft_in_message(draft) == IF draft = <<>> THEN <<"N", "o", " ", "d", "r", "a", "f", "t", " ", "y", "e", "t">> ELSE draft

\* what the drafting collaborator may answer: LongWriterOutput values
DraftChoices ==
    {[next_section_markdown |-> <<"#", " ", "a", "\n">> \o marker_text(1),
      references |-> <<format_reference(1, <<"a">>)>>],
     [next_section_markdown |-> marker_text(1) \o marker_text(2),
      references |-> <<format_reference(1, <<"b">>), format_reference(2, <<"a">>)>>],
     [next_section_markdown |-> <<"x">> \o marker_text(2),
      references |-> <<<<"1">>>>],
     [next_section_markdown |-> <<"[">> \o marker_text(2) \o <<"1", "]">>,
      references |-> <<>>]}

InitReport ==
    /\ pc = "assemble"
    /\ section_markdown = <<>>
    /\ section_references = <<>>
    /\ all_references = <<>>
    /\ out = NoResult
    /\ prev = NoResult
    /\ ncalls = 0
    /\ resolved = {}
    /\ declared = {}
    /\ report_draft \in [Assemblies -> {planned_sections(n) : n \in 0..MaxSections}]
    /\ apc = [a \in Assemblies |-> "start"]
    /\ final_draft = [a \in Assemblies |-> <<>>]
    /\ all_references_of = [a \in Assemblies |-> <<>>]
    /\ section_index = [a \in Assemblies |-> 0]
    /\ requests = [a \in Assemblies |-> <<>>]
    /\ drafts = [a \in Assemblies |-> <<>>]
    /\ rendered = [a \in Assemblies |-> <<>>]
    /\ outstanding = [a \in Assemblies |-> 0]
    /\ result = [a \in Assemblies |-> NoResult]
    /\ GapIdle

\* a list that all assemblies share
references_shared(lists, a) == lists[CHOOSE b \in Assemblies : TRUE]

\* all_references, a local variable of each write_report call
references_of(lists, a) == lists[a]

\* write_report is entered: final_draft and all_references are set up
Begin(a) ==
    /\ apc[a] = "start"
    /\ final_draft' = [final_draft EXCEPT ![a] = initial_draft(report_title, report_draft[a])]
    /\ all_references_of' = [all_references_of EXCEPT ![a] = <<>>]
    /\ apc' = [apc EXCEPT ![a] = "loop"]
    /\ UNCHANGED <<report_draft, section_index, requests, drafts, rendered, outstanding,
                   result>>
    /\ UNCHANGED <<refVars, gapVars>>

\* the loop takes the next planned section and awaits write_next_section
RequestDraft(a) ==
    /\ apc[a] = "loop"
    /\ section_index[a] < Len(report_draft[a])
    /\ requests' = [requests EXCEPT ![a] = Append(@,
          [next_section_title |-> report_draft[a][section_index[a] + 1].section_title,
           next_section_draft |-> report_draft[a][section_index[a] + 1].section_content,
           report_draft |-> draft_in_message(final_draft[a]),
           appended |-> Len(rendered[a])])]
    /\ outstanding' = [outstanding EXCEPT ![a] = @ + 1]
    /\ apc' = [apc EXCEPT ![a] = "awaiting"]
    /\ UNCHANGED <<report_draft, final_draft, all_references_of, section_index,
                   drafts, rendered, result>>
    /\ UNCHANGED <<refVars, gapVars>>

\* write_next_section returns a draft: it is consolidated, normalized and
\* appended; an exception of reformat_references leaves write_report
DraftReturns(a) ==
    /\ apc[a] = "awaiting"
    /\ outstanding' = [outstanding EXCEPT ![a] = @ - 1]
    /\ \E next_section_draft \in DraftChoices :
         LET r == reformat_references(next_section_draft.next_section_markdown,
                                      next_section_draft.references,
                                      references_of(all_references_of, a))
             markdown == reformat_section_headings(r.section_markdown).section_markdown
         IN  /\ drafts' = [drafts EXCEPT ![a] = Append(@, next_section_draft)]
             /\ IF r.kind = "raised"
                THEN /\ apc' = [apc EXCEPT ![a] = "failed"]
                     /\ result' = [result EXCEPT ![a] =
                                      [kind |-> "raised", error |-> r.raised,
                                       message |-> <<"l", "i", "s", "t", " ", "i", "n", "d", "e", "x">>,
                                       raised_in |-> "reformat_references"]]
                     /\ UNCHANGED <<final_draft, all_references_of, section_index,
                                    rendered>>
                ELSE /\ all_references_of' =
                            [all_references_of EXCEPT ![a] = r.all_references]
                     /\ final_draft' =
                            [final_draft EXCEPT ![a] = append_section(@, markdown)]
                     /\ rendered' = [rendered EXCEPT ![a] = Append(@, markdown)]
                     /\ section_index' = [section_index EXCEPT ![a] = @ + 1]
                     /\ apc' = [apc EXCEPT ![a] = "loop"]
                     /\ UNCHANGED result
    /\ UNCHANGED <<report_draft, requests>>
    /\ UNCHANGED <<refVars, gapVars>>

\* the exceptions ResearchRunner.run may raise: the collaborator's own, with
\* the collaborator's own message
RunnerFailures ==
    {[error |-> "MaxTurnsExceeded", message |-> <<"m", "a", "x", " ", "t", "u", "r", "n", "s">>],
     [error |-> "ModelBehaviorError", message |-> <<"b", "a", "d", " ", "j", "s", "o", "n">>]}

\* ResearchRunner.run raises: the exception leaves write_next_section and
\* write_report as it is
DraftFails(a) ==
    /\ apc[a] = "awaiting"
    /\ outstanding' = [outstanding EXCEPT ![a] = @ - 1]
    /\ apc' = [apc EXCEPT ![a] = "failed"]
    /\ \E failure \in RunnerFailures :
          result' = [result EXCEPT ![a] =
                        [kind |-> "raised", error |-> failure.error,
                         message |-> failure.message,
                         raised_in |-> "write_next_section"]]
    /\ UNCHANGED <<report_draft, final_draft, all_references_of, section_index,
                   requests, drafts, rendered>>
    /\ UNCHANGED <<refVars, gapVars>>

\* the loop is over: the references are appended and the report returned
Finish(a) ==
    /\ apc[a] = "loop"
    /\ section_index[a] = Len(report_draft[a])
    /\ final_draft' = [final_draft EXCEPT ![a] = append_references(@, references_of(all_references_of, a))]
    /\ result' = [result EXCEPT ![a] =
          [kind |-> "returned", report |-> append_references(final_draft[a], references_of(all_references_of, a))]]
    /\ apc' = [apc EXCEPT ![a] = "done"]
    /\ UNCHANGED <<report_draft, all_references_of, section_index, requests,
                   drafts, rendered, outstanding>>
    /\ UNCHANGED <<refVars, gapVars>>

Next ==
    \E a \in Assemblies :
        \/ Begin(a)
        \/ RequestDraft(a)
        \/ DraftReturns(a)
        \/ DraftFails(a)
        \/ Finish(a)

Init == InitReport

Spec == Init /\ [][Next]_vars

(***************************************************************************)
(* The rendered global list, read back entry by entry: "[n] locator".      *)
(***************************************************************************)
NumberOfEntry(t) == int(SubSeq(t, 2, IndexOf(t, "]") - 1))

LocatorOfEntry(t) == Tail_(t, IndexOf(t, " ") + 1)

EntriesFor(refs, l) == {i \in 1..Len(refs) : LocatorOfEntry(refs[i]) = l}

HasEntry(refs, l) == EntriesFor(refs, l) # {}

GlobalNumber(refs, l) == NumberOfEntry(refs[CHOOSE i \in EntriesFor(refs, l) : TRUE])

(***************************************************************************)
(* C1 (SpecSeq).  Locator dedup across sections: the rewritten markers of  *)
(* one locator carry one and the same global number in every section,      *)
(* that number is the number of the locator's entry in the global list,    *)
(* and the global list holds exactly one entry for every locator that a    *)
(* consolidated section declares.                                          *)
(***************************************************************************)
LocatorDedup ==
    /\ \A t1, t2 \in resolved : t1[2] = t2[2] => t1[4] = t2[4]
    /\ \A t \in resolved :
          /\ Cardinality(EntriesFor(all_references, t[2])) = 1
          /\ GlobalNumber(all_references, t[2]) = t[4]
    /\ \A d \in declared :
          (pc = "sequence" \/ d[1] < ncalls)
              => Cardinality(EntriesFor(all_references, d[2])) = 1

\* the locator a.com of three sections, declared as [1], [2] and [1], is
\* cited under one number, and the list is a.com, b.com
LocatorDedupWitness ==
    /\ ncalls = 3
    /\ pc = "sequence"
    /\ all_references = <<format_reference(1, <<"a">>), format_reference(2, <<"b">>)>>
    /\ {<<1, <<"a">>, 1, 1>>, <<2, <<"b">>, 1, 2>>, <<2, <<"a">>, 2, 1>>,
        <<3, <<"a">>, 1, 1>>} \subseteq resolved

(***************************************************************************)
(* C2 (SpecSeq).  Monotonic numbering: the i-th entry of the global list   *)
(* carries the number i (numbers start at 1 and every new locator gets the *)
(* maximum plus one), no two entries share a locator, and over the whole   *)
(* sequence no number stands for two different locators.                   *)
(***************************************************************************)
MonotonicNumbering ==
    /\ \A i \in 1..Len(all_references) : NumberOfEntry(all_references[i]) = i
    /\ \A i, j \in 1..Len(all_references) :
          LocatorOfEntry(all_references[i]) = LocatorOfEntry(all_references[j]) => i = j
    /\ \A t1, t2 \in resolved : t1[4] = t2[4] => t1[2] = t2[2]

\* two locators numbered in two different calls
MonotonicNumberingWitness ==
    /\ Len(all_references) >= 2
    /\ \E t1, t2 \in resolved : t1[1] < t2[1] /\ t1[4] = 1 /\ t2[4] = 2
    /\ ~ \E d \in declared : d[1] = 1 /\ d[2] = LocatorOfEntry(all_references[2])

(***************************************************************************)
(* C3 (SpecCall).  Marker rewriting for declared references: a marker [n]  *)
(* whose number the section declares for locator L is replaced by [g], g   *)
(* the global number of L, and a marker is deleted only when no entry of   *)
(* section_references declares its number.                                 *)
(***************************************************************************)
DeclaredMarkersRewritten ==
    (ncalls >= 1 /\ out.kind = "returned") =>
        \A k \in 1..Len(out.replaced) :
            /\ \A l \in DeclaredUnder(section_references, out.replaced[k].ref_num) :
                  /\ HasEntry(out.all_references, l)
                  /\ out.replaced[k].text = marker_text(GlobalNumber(out.all_references, l))
            /\ out.replaced[k].text = <<>>
                  => DeclaredUnder(section_references, out.replaced[k].ref_num) = {}

(***************************************************************************)
(* C4 (SpecCall).  Dangling marker deletion: whatever the body and the     *)
(* reference list, the call returns, every marker whose number no entry of *)
(* section_references carries is replaced by empty text, and with an empty *)
(* section_references every marker is deleted and the global list is       *)
(* returned as it was.                                                     *)
(***************************************************************************)
NumbersOf(refs) ==
    {EntryOf(refs[i]).num : i \in {j \in 1..Len(refs) : Numbered(EntryOf(refs[j]))}}

DanglingMarkersDeleted ==
    ncalls >= 1 =>
        /\ out.kind = "returned"
        /\ \A k \in 1..Len(out.replaced) :
              out.replaced[k].ref_num \notin NumbersOf(section_references)
                  => out.replaced[k].text = <<>>
        /\ section_references = <<>> =>
              /\ \A k \in 1..Len(out.replaced) : out.replaced[k].text = <<>>
              /\ out.all_references = out.before

(***************************************************************************)
(* C5 (SpecCall).  Malformed reference entries are never fatal: the call   *)
(* returns, an entry that is not "[n] locator" adds no entry to the global *)
(* list and no local mapping, and every well-formed entry is processed.    *)
(***************************************************************************)
MalformedEntriesSkipped ==
    ncalls >= 1 =>
        /\ out.kind = "returned"
        /\ \A i \in (Len(out.before) + 1)..Len(out.all_references) :
              LocatorOfEntry(out.all_references[i]) \in DeclaredIn(section_references)
        /\ \A k \in 1..Len(out.replaced) :
              out.replaced[k].text # <<>>
                  => DeclaredUnder(section_references, out.replaced[k].ref_num) # {}
        /\ \A l \in DeclaredIn(section_references) : HasEntry(out.all_references, l)

(***************************************************************************)
(* C6 (SpecCall).  Idempotent consolidation: when the global list already  *)
(* holds every locator of the section, consolidating the same pair twice   *)
(* returns the same rewritten body both times and leaves the global list   *)
(* as it was.                                                              *)
(***************************************************************************)
IdempotentConsolidation ==
    (ncalls >= 2
     /\ \A l \in DeclaredIn(section_references) : HasEntry(prev.before, l)) =>
        /\ prev.kind = "returned"
        /\ out.kind = "returned"
        /\ out.section_markdown = prev.section_markdown
        /\ out.all_references = prev.before

(***************************************************************************)
(* Heading lines of a body, before and after normalization.                *)
(***************************************************************************)
HeadingLinesOf(ls) == {i \in 1..Len(ls) : IsHeadingLine(ls[i])}

FirstOf(S) == CHOOSE i \in S : \A j \in S : i <= j

(***************************************************************************)
(* C7 (SpecHead).  Heading floor: every level that normalization computes  *)
(* for a heading is at least 2, and every heading line of the normalized   *)
(* body has level at least 2.                                              *)
(***************************************************************************)
HeadingFloor ==
    ncalls >= 1 =>
        /\ \A k \in 1..Len(out.adjusted) : out.adjusted[k].new_level >= 2
        /\ LET ls == Lines(out.section_markdown) IN
           \A i \in HeadingLinesOf(ls) : HeadingLevel(ls[i]) >= 2

\* the first heading is deeper than level 2 and a later, shallower heading
\* would be shifted to a negative level; it ends at level 2
HeadingFloorWitness ==
    /\ ncalls = 1
    /\ out.first_heading_level > 2
    /\ \E k \in 1..Len(out.adjusted) :
          /\ out.adjusted[k].hashes + (2 - out.first_heading_level) < 0
          /\ out.adjusted[k].new_level = 2
    /\ LET ls == Lines(out.input) IN
       /\ HeadingLinesOf(ls) # {}
       /\ HeadingLevel(ls[FirstOf(HeadingLinesOf(ls))]) > 2

(***************************************************************************)
(* C8 (SpecHead).  Heading rebase: in a body with a heading, every heading *)
(* line of level k becomes the heading line of level                       *)
(* max(2, k + (2 - level of the first heading)), so the first heading      *)
(* moves to level 2.                                                       *)
(***************************************************************************)
HeadingRebase ==
    ncalls >= 1 =>
        LET ins == Lines(out.input)
            outs == Lines(out.section_markdown)
            hs == HeadingLinesOf(ins)
        IN  hs # {} =>
              /\ Len(outs) = Len(ins)
              /\ \A i \in hs :
                    /\ IsHeadingLine(outs[i])
                    /\ HeadingLevel(outs[i]) =
                         max(2, HeadingLevel(ins[i]) + (2 - HeadingLevel(ins[FirstOf(hs)])))

(***************************************************************************)
(* C9 (SpecHead).  Frame of heading normalization: a body without a        *)
(* heading line is returned as it is; otherwise the lines keep their       *)
(* number and order and every line that is not a heading line is           *)
(* unchanged.                                                              *)
(***************************************************************************)
NonHeadingLinesKept ==
    ncalls >= 1 =>
        LET ins == Lines(out.input)
            outs == Lines(out.section_markdown)
            hs == HeadingLinesOf(ins)
        IN  /\ hs = {} => out.section_markdown = out.input
            /\ Len(outs) = Len(ins)
            /\ \A i \in (1..Len(ins)) \ hs : outs[i] = ins[i]

(***************************************************************************)
(* C10 (Spec).  Section assembly is strictly sequential: an assembly has   *)
(* at most one draft request outstanding; the request for planned section  *)
(* k is made when exactly the bodies of sections 1..k-1 have been          *)
(* appended, names section k, and passes as context the title and table of *)
(* contents followed by the rendered bodies of sections 1..k-1 in order.   *)
(***************************************************************************)
DocumentSoFar(a, m) ==
    initial_draft(report_title, report_draft[a])
    \o Flatten([j \in 1..m |-> rendered[a][j] \o <<"\n", "\n">>])

SequentialAssembly ==
    \A a \in Assemblies :
        /\ outstanding[a] \in {0, 1}
        /\ Len(requests[a]) <= Len(rendered[a]) + 1
        /\ \A k \in 1..Len(requests[a]) :
              /\ requests[a][k].appended = k - 1
              /\ requests[a][k].next_section_title = report_draft[a][k].section_title
              /\ requests[a][k].report_draft = DocumentSoFar(a, k - 1)

\* both assemblies wait for the draft of their second section, the first
\* section's rendered body being part of the context
SequentialAssemblyWitness ==
    \A a \in Assemblies :
        /\ apc[a] = "awaiting"
        /\ outstanding[a] = 1
        /\ Len(requests[a]) = 2
        /\ Len(rendered[a]) = 1
        /\ rendered[a][1] # <<>>
        /\ requests[a][2].report_draft # requests[a][1].report_draft

(***************************************************************************)
(* C11 (Spec).  Draft failure propagation: when the drafting collaborator  *)
(* fails for section k, the assembly stops with the failure, returns no    *)
(* document, has drafted no later section, and the failure handed to the   *)
(* caller names the heading of section k.                                  *)
(***************************************************************************)
\* text sub occurs in text s
Contains(s, sub) ==
    \E i \in 1..(Len(s) - Len(sub) + 1) : SubSeq(s, i, i + Len(sub) - 1) = sub

DraftFailed(a) ==
    result[a] # NoResult /\ result[a].kind = "raised"
    /\ result[a].raised_in = "write_next_section"

DraftFailureIdentifiesSection ==
    \A a \in Assemblies :
        DraftFailed(a) =>
            /\ apc[a] = "failed"
            /\ Len(requests[a]) = section_index[a] + 1
            /\ Len(rendered[a]) = section_index[a]
            /\ Contains(result[a].message,
                        report_draft[a][section_index[a] + 1].section_title)

(***************************************************************************)
(* C12 (Spec).  References block: the document of a running assembly holds *)
(* no references block; the returned document is the title, the table of   *)
(* contents and all planned sections followed by exactly one references    *)
(* block, which lists the entries of the global list, each once, one per   *)
(* line, as "[n] locator" with n = 1, 2, ... in ascending order; with no   *)
(* planned section the block is there and empty.                           *)
(***************************************************************************)
ReferencesHeading ==
    <<"#", "#", " ", "R", "e", "f", "e", "r", "e", "n", "c", "e", "s", ":">>

Occurrences(s, sub) ==
    Cardinality({i \in 1..(Len(s) - Len(sub) + 1) : SubSeq(s, i, i + Len(sub) - 1) = sub})

\* the lines of the references block of a finished document
BlockLines(a) ==
    LET before == DocumentSoFar(a, Len(report_draft[a])) \o ReferencesHeading \o <<"\n", "\n">>
        block == Tail_(final_draft[a], Len(before) + 1)
    IN  IF block = <<>> THEN <<>> ELSE Lines(block)

ReferencesBlockOnce ==
    \A a \in Assemblies :
        /\ apc[a] # "done" =>
              /\ Occurrences(final_draft[a], ReferencesHeading) = 0
              /\ result[a].kind # "returned"
        /\ apc[a] = "done" =>
              /\ Len(rendered[a]) = Len(report_draft[a])
              /\ result[a].kind = "returned"
              /\ result[a].report = final_draft[a]
              /\ Occurrences(final_draft[a], ReferencesHeading) = 1
              /\ SubSeq(final_draft[a], 1,
                        Len(DocumentSoFar(a, Len(report_draft[a]))) + Len(ReferencesHeading) + 2)
                    = DocumentSoFar(a, Len(report_draft[a])) \o ReferencesHeading \o <<"\n", "\n">>
              /\ Len(BlockLines(a)) = Len(all_references_of[a])
              /\ \A i \in 1..Len(all_references_of[a]) :
                    /\ BlockLines(a)[i] =
                          all_references_of[a][i]
                          \o (IF i < Len(all_references_of[a]) THEN <<" ", " ">> ELSE <<>>)
                    /\ NumberOfEntry(all_references_of[a][i]) = i
                    /\ \A j \in 1..Len(all_references_of[a]) :
                          LocatorOfEntry(all_references_of[a][j])
                              = LocatorOfEntry(all_references_of[a][i]) => i = j

\* one assembly without planned sections ends with the empty block, the
\* other lists two references after its two sections
ReferencesBlockOnceWitness ==
    /\ \E a \in Assemblies :
          /\ apc[a] = "done" /\ report_draft[a] = <<>>
          /\ final_draft[a] = initial_draft(report_title, <<>>) \o ReferencesHeading \o <<"\n", "\n">>
    /\ \E a \in Assemblies :
          /\ apc[a] = "done" /\ Len(report_draft[a]) = 2
          /\ Len(all_references_of[a]) = 2
          /\ Len(BlockLines(a)) = 2

(***************************************************************************)
(* The gap loop controller (PLANNING, ITERATING, DONE) over ResearchState. *)
(* The collaborators are external: the completeness judgment is a          *)
(* KnowledgeGapOutput, the task plan an AgentSelectionPlan, and both may   *)
(* be longer than the three items they are asked for.                      *)
(***************************************************************************)
MaxIterations == 1    \* largest configured maximum of iteration_count
MaxGaps == 4          \* gaps in one judgment
MaxPlanned == 4       \* tasks in one plan

\* at most 3 tasks per batch
BatchCap == 3

min(a, b) == IF a <= b THEN a ELSE b

\* KnowledgeGapOutput values
GapJudgments ==
    {[research_complete |-> c, outstanding_gaps |-> [i \in 1..g |-> <<"gap", i>>]] :
        c \in BOOLEAN, g \in 0..MaxGaps}

\* AgentSelectionPlan values for a gap
TaskPlans(gap) ==
    {[tasks |-> [i \in 1..n |->
                    [gap |-> gap,
                     agent |-> IF i % 2 = 1 THEN "WebSearchAgent" ELSE "SiteCrawlerAgent",
                     query |-> i]]] :
        n \in 0..MaxPlanned}

\* what the execution of a task gives back; a failure is a finding
Findings == {"found", "task failed"}

\* the orders in which n joined results can be appended
Orders(n) == {p \in [1..n -> 1..n] : \A i, j \in 1..n : p[i] = p[j] => i = j}

\* a stop condition that forgets the iteration budget
should_stop_without_budget(j, count, maximum) ==
    j.research_complete \/ j.outstanding_gaps = <<>>

\* a stop condition that forgets the completeness judgment
should_stop_without_judgment(j, count, maximum) ==
    j.outstanding_gaps = <<>> \/ count >= maximum

\* the judgment marks research complete OR the gap list is empty OR
\* iteration_count reaches the configured maximum
should_stop(j, count, maximum) ==
    j.research_complete \/ j.outstanding_gaps = <<>> \/ count >= maximum

\* the first unaddressed gap(s) up to the batch cap
select_gaps(gaps) == SubSeq(gaps, 1, min(BatchCap, Len(gaps)))

\* a batch that dispatches the whole plan
batch_uncapped(tasks) == tasks

\* the task plan, bounded to at most 3 AgentTasks
batch(tasks) == SubSeq(tasks, 1, min(BatchCap, Len(tasks)))

\* a history that keeps the latest records only
append_to_history_latest_only(h, records) == records

\* history is append-only
append_to_history(h, records) == h \o records

\* what is known of an iteration when ITERATING is entered
NewIteration(count) ==
    [count_on_entry |-> count, thought_requested |-> FALSE, plan_requested |-> FALSE,
     tasks_dispatched |-> 0, findings_appended |-> 0]

\* the log with a field of the current iteration set
Noted(log, field, value) == [log EXCEPT ![Len(log)] = [@ EXCEPT ![field] = value]]

InitGap ==
    /\ RefIdle
    /\ AsmIdle
    /\ gstate = "PLANNING"
    /\ gpc = "none"
    /\ max_iterations \in 0..MaxIterations
    /\ history = <<>>
    /\ iteration_count = 0
    /\ completion_flag = FALSE
    /\ judgment = NoResult
    /\ dispatched = NoBatch
    /\ iterations = <<>>

\* PLANNING: ResearchState is initialized with an empty history
StartResearch ==
    /\ gstate = "PLANNING"
    /\ gstate' = "ITERATING"
    /\ gpc' = "thought"
    /\ history' = <<>>
    /\ iteration_count' = 0
    /\ completion_flag' = FALSE
    /\ iterations' = <<NewIteration(0)>>
    /\ UNCHANGED <<max_iterations, judgment, dispatched>>
    /\ UNCHANGED <<refVars, asmVars>>

\* ITERATING (i): the reflective thought, which may be skipped while the
\* history is empty; then the completeness judgment is requested
Reflect ==
    /\ gstate = "ITERATING"
    /\ gpc = "thought"
    /\ \E skipped \in BOOLEAN :
          /\ skipped => history = <<>>
          /\ history' = IF skipped THEN history
                        ELSE append_to_history(history,
                                 <<[kind |-> "thought", iteration |-> Len(iterations)]>>)
          /\ iterations' = Noted(iterations, "thought_requested", ~skipped)
    /\ gpc' = "judgment"
    /\ UNCHANGED <<gstate, max_iterations, iteration_count, completion_flag, judgment,
                   dispatched>>
    /\ UNCHANGED <<refVars, asmVars>>

\* ITERATING (ii), (iii): the judgment arrives; the controller is DONE or
\* requests a task plan for the selected gaps
JudgmentReturns ==
    /\ gstate = "ITERATING"
    /\ gpc = "judgment"
    /\ \E j \in GapJudgments :
          /\ judgment' = j
          /\ completion_flag' = (completion_flag \/ j.research_complete)
          /\ IF should_stop(j, iteration_count, max_iterations)
             THEN /\ gstate' = "DONE"
                  /\ gpc' = "none"
                  /\ UNCHANGED iterations
             ELSE /\ gstate' = "ITERATING"
                  /\ gpc' = "plan"
                  /\ iterations' = Noted(iterations, "plan_requested", TRUE)
    /\ UNCHANGED <<max_iterations, history, iteration_count, dispatched>>
    /\ UNCHANGED <<refVars, asmVars>>

\* the task plan arrives and its batch is dispatched
PlanReturns ==
    /\ gstate = "ITERATING"
    /\ gpc = "plan"
    /\ \E plan \in TaskPlans(select_gaps(judgment.outstanding_gaps)[1]) :
          /\ dispatched' = [planned |-> Len(plan.tasks), tasks |-> batch(plan.tasks)]
          /\ iterations' = Noted(iterations, "tasks_dispatched", Len(batch(plan.tasks)))
    /\ gpc' = "execute"
    /\ UNCHANGED <<gstate, max_iterations, history, iteration_count, completion_flag,
                   judgment>>
    /\ UNCHANGED <<refVars, asmVars>>

\* the dispatched tasks are joined: every (action, finding) pair is appended
\* to the history, iteration_count is incremented, ITERATING is entered again
TasksJoin ==
    /\ gstate = "ITERATING"
    /\ gpc = "execute"
    /\ \E order \in Orders(Len(dispatched.tasks)),
          finding \in [1..Len(dispatched.tasks) -> Findings] :
          /\ history' = append_to_history(history,
                [k \in 1..Len(dispatched.tasks) |->
                    [kind |-> "action_finding", iteration |-> Len(iterations),
                     action |-> dispatched.tasks[order[k]], finding |-> finding[order[k]]]])
          /\ iterations' = Append(Noted(iterations, "findings_appended", Len(dispatched.tasks)),
                                  NewIteration(iteration_count + 1))
    /\ iteration_count' = iteration_count + 1
    /\ gpc' = "thought"
    /\ UNCHANGED <<gstate, max_iterations, completion_flag, judgment, dispatched>>
    /\ UNCHANGED <<refVars, asmVars>>

NextGap == StartResearch \/ Reflect \/ JudgmentReturns \/ PlanReturns \/ TasksJoin

SpecGap == InitGap /\ [][NextGap]_vars

\* every collaborator answers and the controller takes its next step
SpecGapFair == SpecGap /\ WF_vars(NextGap)

(***************************************************************************)
(* C13 (SpecGapFair).  Gap loop stop condition and bounded termination:    *)
(* a judgment that is complete, or has no gap, or arrives when             *)
(* iteration_count has reached the maximum, takes the controller to DONE;  *)
(* iteration_count never exceeds the maximum; the controller is only ever  *)
(* in PLANNING, ITERATING or DONE; and whatever the collaborators answer   *)
(* it eventually reaches DONE.                                             *)
(***************************************************************************)
JudgmentStops ==
    (gstate = "ITERATING" /\ gpc = "judgment" /\ gpc' # "judgment") =>
        ((judgment'.research_complete
          \/ judgment'.outstanding_gaps = <<>>
          \/ iteration_count >= max_iterations) => gstate' = "DONE")

GapLoopTerminates ==
    /\ [](iteration_count <= max_iterations /\ gstate \in {"PLANNING", "ITERATING", "DONE"})
    /\ [][JudgmentStops]_vars
    /\ <>(gstate = "DONE")

\* DONE by budget: the last judgment was incomplete with gaps outstanding
GapLoopTerminatesWitness ==
    /\ gstate = "DONE"
    /\ max_iterations >= 1
    /\ iteration_count = max_iterations
    /\ ~judgment.research_complete
    /\ judgment.outstanding_gaps # <<>>

(***************************************************************************)
(* C14 (SpecGap).  Batch cap: in every iteration at most 3 tasks are       *)
(* dispatched and at most 3 (action, finding) records are appended,        *)
(* however many gaps are outstanding and however long the task plan is.    *)
(***************************************************************************)
FindingsOf(i) ==
    {k \in 1..Len(history) :
        history[k].kind = "action_finding" /\ history[k].iteration = i}

BatchCapped ==
    /\ Len(dispatched.tasks) <= 3
    /\ \A i \in 1..Len(iterations) :
          /\ iterations[i].tasks_dispatched <= 3
          /\ iterations[i].findings_appended <= 3
          /\ Cardinality(FindingsOf(i)) <= 3

\* more than 3 gaps outstanding and a plan of more than 3 tasks: 3 tasks
\* dispatched, 3 findings appended
BatchCappedWitness ==
    /\ gpc = "thought"
    /\ Len(iterations) >= 2
    /\ Len(judgment.outstanding_gaps) > 3
    /\ dispatched.planned > 3
    /\ iterations[Len(iterations) - 1].tasks_dispatched = 3
    /\ iterations[Len(iterations) - 1].findings_appended = 3
    /\ Cardinality(FindingsOf(Len(iterations) - 1)) = 3

(***************************************************************************)
(* C15 (SpecGap).  Immediate completeness: when the judgment of iteration  *)
(* 1 says research_complete, the controller is DONE in that iteration,     *)
(* with no task plan requested, no task dispatched and no (action,         *)
(* finding) record in the history; and DONE is final.                      *)
(***************************************************************************)
CompleteOnFirstJudgment ==
    Len(iterations) = 1 /\ judgment # NoResult /\ judgment.research_complete

DoneAfterOneIteration ==
    /\ [](CompleteOnFirstJudgment =>
            /\ gstate = "DONE"
            /\ iteration_count = 0
            /\ ~iterations[1].plan_requested
            /\ iterations[1].tasks_dispatched = 0
            /\ dispatched.tasks = <<>>
            /\ \A k \in 1..Len(history) : history[k].kind # "action_finding")
    /\ [][gstate = "DONE" => UNCHANGED gapVars]_vars

\* complete on iteration 1 although gaps are outstanding and the budget is
\* not used up: DONE after that one iteration
DoneAfterOneIterationWitness ==
    /\ gstate = "DONE"
    /\ CompleteOnFirstJudgment
    /\ judgment.outstanding_gaps # <<>>
    /\ max_iterations >= 1

(***************************************************************************)
(* C16 (SpecGap).  ResearchState invariants: every step leaves the history *)
(* it found as a prefix of the new history, leaves iteration_count as it   *)
(* is or adds one to it, adding one exactly when an iteration completes,   *)
(* and never resets a true completion flag; iteration_count is the number  *)
(* of completed iterations.                                                *)
(***************************************************************************)
IsPrefix(p, q) == Len(p) <= Len(q) /\ SubSeq(q, 1, Len(p)) = p

IterationCompletes == gpc = "execute" /\ gpc' = "thought"

ResearchStateStep ==
    /\ IsPrefix(history, history')
    /\ iteration_count' \in {iteration_count, iteration_count + 1}
    /\ iteration_count' = iteration_count + 1 <=> IterationCompletes
    /\ completion_flag => completion_flag'

ResearchStateInvariants ==
    /\ [][ResearchStateStep]_vars
    /\ [](gstate \in {"ITERATING", "DONE"} => iteration_count = Len(iterations) - 1)

\* a completed iteration with findings, then a thought appended behind them,
\* and the flag set by the second judgment
ResearchStateInvariantsWitness ==
    /\ gstate = "DONE"
    /\ iteration_count = 1
    /\ completion_flag
    /\ \E k \in 1..Len(history) :
          /\ k >= 2 /\ k < Len(history)
          /\ history[k].kind = "action_finding"
          /\ history[Len(history)].kind = "thought"

(***************************************************************************)
(* C17 (SpecCall).  Consolidation frame: a consolidation call leaves the   *)
(* section body and section_references it was given as they are, and the   *)
(* global list before the call is a prefix of the global list after it, so *)
(* no entry is modified, removed, reordered or renumbered.                 *)
(***************************************************************************)
ConsolidationStep ==
    /\ section_markdown' = section_markdown
    /\ section_references' = section_references
    /\ IsPrefix(all_references, all_references')

ConsolidationFrame ==
    /\ [][ConsolidationStep]_vars
    /\ [](ncalls >= 1 => IsPrefix(out.before, out.all_references))

\* a call that appended to a list that already had entries
ConsolidationFrameWitness ==
    /\ ncalls >= 1
    /\ out.kind = "returned"
    /\ out.before # <<>>
    /\ Len(out.all_references) > Len(out.before)
    /\ out.section_markdown # section_markdown

(***************************************************************************)
(* C18 (Spec).  Independence of concurrent assemblies: while two           *)
(* assemblies run interleaved at their drafting calls, the reference list  *)
(* and the rendered bodies of each are what that assembly gets from its    *)
(* own drafts when they are consolidated one after the other on a list of  *)
(* its own that starts empty, and so is its returned document.             *)
(***************************************************************************)
RECURSIVE RunAlone(_, _)
RunAlone(ds, acc) ==
    IF ds = <<>> THEN acc
    ELSE LET r == reformat_references(Head(ds).next_section_markdown,
                                      Head(ds).references, acc.all_references)
         IN  IF r.kind = "raised" THEN acc
             ELSE RunAlone(Tail(ds),
                     [all_references |-> r.all_references,
                      rendered |-> Append(acc.rendered,
                          reformat_section_headings(r.section_markdown).section_markdown)])

Alone(a) == RunAlone(drafts[a], [all_references |-> <<>>, rendered |-> <<>>])

AssembliesIndependent ==
    \A a \in Assemblies :
        LET alone == Alone(a) IN
        /\ all_references_of[a] = alone.all_references
        /\ rendered[a] = alone.rendered
        /\ apc[a] = "done" =>
              result[a].report =
                  initial_draft(report_title, report_draft[a])
                  \o Flatten([k \in 1..Len(alone.rendered) |->
                                 alone.rendered[k] \o <<"\n", "\n">>])
                  \o ReferencesHeading \o <<"\n", "\n">>
                  \o join(<<" ", " ", "\n">>, alone.all_references)

\* both assemblies are in the middle of their run, each with a section
\* appended and waiting for the next draft, and their lists differ
AssembliesIndependentWitness ==
    /\ \A a \in Assemblies :
          /\ apc[a] = "awaiting"
          /\ Len(rendered[a]) = 1
          /\ all_references_of[a] # <<>>
    /\ \E a, b \in Assemblies : all_references_of[a] # all_references_of[b]

(***************************************************************************)
(* C19 (SpecCall).  Marker rewriting is a simultaneous substitution: every *)
(* marker of the input body is looked up once, in order, equal numbers get *)
(* equal replacements, and the returned body is the input body with each   *)
(* marker giving way to its replacement text as it was produced, so a      *)
(* mapping of local 1 to global 2 and local 2 to global 1 swaps the two.   *)
(***************************************************************************)
MarkerTexts(s) ==
    LET ms == marker_matches(s, 1) IN
    [k \in 1..Len(ms) |-> SubSeq(s, ms[k].from, ms[k].to)]

\* the body put together from the text between the markers of s and the
\* replacement texts, each used once where its marker stood
RECURSIVE Substituted(_, _, _, _)
Substituted(s, i, ms, texts) ==
    IF ms = <<>> THEN Tail_(s, i)
    ELSE SubSeq(s, i, Head(ms).from - 1) \o Head(texts)
         \o Substituted(s, Head(ms).to + 1, Tail(ms), Tail(texts))

SimultaneousSubstitution ==
    (ncalls >= 1 /\ out.kind = "returned") =>
        /\ Len(out.replaced) = Len(MarkerTexts(section_markdown))
        /\ \A k \in 1..Len(out.replaced) :
              /\ marker_text(out.replaced[k].ref_num) = MarkerTexts(section_markdown)[k]
              /\ \A l \in 1..Len(out.replaced) :
                    out.replaced[k].ref_num = out.replaced[l].ref_num
                        => out.replaced[k].text = out.replaced[l].text
        /\ out.section_markdown =
              Substituted(section_markdown, 1, marker_matches(section_markdown, 1),
                          [k \in 1..Len(out.replaced) |-> out.replaced[k].text])

\* b.com declared as [1] and the already known a.com as [2]: "[1][2]" is
\* returned as "[2][1]"
SimultaneousSubstitutionWitness ==
    /\ ncalls = 1
    /\ out.kind = "returned"
    /\ out.before = <<format_reference(1, <<"a">>)>>
    /\ section_references = <<format_reference(1, <<"b">>), format_reference(2, <<"a">>)>>
    /\ section_markdown = marker_text(1) \o marker_text(2)
    /\ out.section_markdown = marker_text(2) \o marker_text(1)
    /\ out.all_references = <<format_reference(1, <<"a">>), format_reference(2, <<"b">>)>>

(***************************************************************************)
(* C20 (Spec).  Referential integrity of the assembled document: with N    *)
(* the number of distinct well-formed locators declared by the sections    *)
(* appended so far, the global list has N entries numbered 1..N, and every *)
(* marker [n] left in an appended section body has 1 <= n <= N.            *)
(***************************************************************************)
\* the locators that the well-formed entries of the appended sections declare
LocatorsDeclared(a) ==
    UNION {DeclaredIn(drafts[a][k].references) : k \in 1..Len(rendered[a])}

MarkerNumbers(s) ==
    LET ms == marker_matches(s, 1) IN {int(ms[k].group1) : k \in 1..Len(ms)}

ReferentialIntegrity ==
    \A a \in Assemblies :
        LET N == Cardinality(LocatorsDeclared(a)) IN
        /\ Len(all_references_of[a]) = N
        /\ \A i \in 1..Len(all_references_of[a]) :
              NumberOfEntry(all_references_of[a][i]) = i
        /\ \A k \in 1..Len(rendered[a]) :
              \A n \in MarkerNumbers(rendered[a][k]) : 1 <= n /\ n <= N

(***************************************************************************)
(* C21 (SpecHead).  Heading normalization is idempotent: normalizing the   *)
(* already normalized body returns it unchanged, because after one pass    *)
(* the first heading line is at level 2 and every other heading line is at *)
(* level 2 or deeper.                                                      *)
(***************************************************************************)
HeadingIdempotent ==
    /\ ncalls >= 1 =>
          LET ls == Lines(out.section_markdown)
              hs == HeadingLinesOf(ls)
          IN  hs # {} =>
                /\ HeadingLevel(ls[FirstOf(hs)]) = 2
                /\ \A i \in hs : HeadingLevel(ls[i]) >= 2
    /\ ncalls >= 2 =>
          /\ out.input = prev.section_markdown
          /\ out.section_markdown = out.input

====
